---- MODULE Spec2Model ----
(***************************************************************************)
(* HyperLogLog cardinality estimator (src/src/lib.rs).                     *)
(*                                                                         *)
(* The estimator owns a register vector and a hasher.  new(m) allocates m  *)
(* zeroed registers, add(item) hashes the item and raises one register to  *)
(* the number of leading zero bits of the hash, count() returns the        *)
(* estimate (raw harmonic-mean estimate or linear counting) and            *)
(* error_estimate() returns 1.04 / sqrt(m).                                *)
(*                                                                         *)
(* An item is identified with its hash: the hash is a deterministic        *)
(* function of the item and nothing else of the item is read.  The hash    *)
(* is HashBits wide here (u64 in the code).  f64 values are modelled as    *)
(* exact non-negative rationals extended with +inf and NaN; ln and sqrt of *)
(* values that have no rational result stay symbolic terms.                *)
(***************************************************************************)
EXTENDS Integers, Sequences, FiniteSets

VARIABLES
    status,     \* "unconstructed", "ok" (an estimator exists) or "panicked"
    registers,  \* self.registers: function 0..m-1 -> rank
    hasher,     \* self.hasher: the hashes of the items fed to it since it was made
    ret,        \* the last call and what it returned
    items       \* history: the hashes of the items added so far, in order

vars == <<status, registers, hasher, ret, items>>

(***************************************************************************)
(* Bounds of the model.                                                    *)
(***************************************************************************)
HashBits == 2   \* width of a hash value
MaxM == 4       \* largest register count tried besides the alpha table's
MaxAdds == 3    \* adds per run

Hashes == 0 .. (2 ^ HashBits - 1)

\* Register counts tried: 0 .. MaxM and the first entry of alpha's table.
MValues == (0 .. MaxM) \cup {16}

(***************************************************************************)
(* f64 arithmetic on the values the estimator produces.                    *)
(***************************************************************************)
RECURSIVE Gcd(_, _)
Gcd(a, b) == IF b = 0 THEN a ELSE Gcd(b, a % b)

Rat(n, d) == LET g == Gcd(n, d) IN [k |-> "rat", n |-> n \div g, d |-> d \div g]

Zero == [k |-> "rat", n |-> 0, d |-> 1]
Inf == [k |-> "inf"]
NaN == [k |-> "nan"]

F(i) == Rat(i, 1)

IsRat(a) == a.k = "rat"
IsZero(a) == IsRat(a) /\ a.n = 0

FAdd(a, b) ==
    IF a.k = "nan" \/ b.k = "nan" THEN NaN
    ELSE IF a.k = "inf" \/ b.k = "inf" THEN Inf
    ELSE IF IsRat(a) /\ IsRat(b) THEN Rat(a.n * b.d + b.n * a.d, a.d * b.d)
    ELSE [k |-> "add", a |-> a, b |-> b]

FMul(a, b) ==
    IF a.k = "nan" \/ b.k = "nan" THEN NaN
    ELSE IF a.k = "inf" \/ b.k = "inf"
         THEN IF IsZero(a) \/ IsZero(b) THEN NaN ELSE Inf
    ELSE IF IsZero(a) \/ IsZero(b) THEN Zero
    ELSE IF IsRat(a) /\ IsRat(b) THEN Rat(a.n * b.n, a.d * b.d)
    ELSE [k |-> "mul", a |-> a, b |-> b]

FDiv(a, b) ==
    IF a.k = "nan" \/ b.k = "nan" THEN NaN
    ELSE IF a.k = "inf" THEN IF b.k = "inf" THEN NaN ELSE Inf
    ELSE IF b.k = "inf" THEN Zero
    ELSE IF IsZero(b) THEN IF IsZero(a) THEN NaN ELSE Inf
    ELSE IF IsZero(a) THEN Zero
    ELSE IF IsRat(a) /\ IsRat(b) THEN Rat(a.n * b.d, a.d * b.n)
    ELSE [k |-> "div", a |-> a, b |-> b]

\* a > b on rationals, +inf and NaN (every comparison with NaN is false)
FGt(a, b) ==
    IF a.k = "nan" \/ b.k = "nan" THEN FALSE
    ELSE IF b.k = "inf" THEN FALSE
    ELSE IF a.k = "inf" THEN TRUE
    ELSE a.n * b.d > b.n * a.d

\* 2f64.powf(-(r as f64))
Pow2Neg(r) == Rat(1, 2 ^ r)

\* x.ln() for x >= 1: ln(1.0) is 0.0, any other logarithm stays a term
FLn(x) ==
    IF x.k = "nan" THEN NaN
    ELSE IF x.k = "inf" THEN Inf
    ELSE IF x = F(1) THEN Zero
    ELSE [k |-> "ln", a |-> x]

IsSquare(n) == \E r \in 0 .. n : r * r = n
Root(n) == CHOOSE r \in 0 .. n : r * r = n

\* x.sqrt(): exact on squares of rationals, a term otherwise
FSqrt(x) ==
    IF x.k = "nan" THEN NaN
    ELSE IF x.k = "inf" THEN Inf
    ELSE IF IsSquare(x.n) /\ IsSquare(x.d) THEN Rat(Root(x.n), Root(x.d))
    ELSE [k |-> "sqrt", a |-> x]

(***************************************************************************)
(* The estimator.                                                          *)
(***************************************************************************)
RegLen(regs) == Cardinality(DOMAIN regs)

\* vec![0; m]
NewRegisters(m) == [j \in 0 .. (m - 1) |-> 0]

\* h.leading_zeros() on a HashBits wide value
RECURSIVE LzFrom(_, _)
LzFrom(h, i) ==
    IF i < 0 THEN 0
    ELSE IF (h \div (2 ^ i)) % 2 = 1 THEN 0
    ELSE 1 + LzFrom(h, i - 1)

LeadingZeros(h) == LzFrom(h, HashBits - 1)

\* h % self.registers.len(), for a non-empty register vector
RegisterIndex(h, m) == h % m

\* Faulty add: stores the rank without comparing it with the register.
AddRegsOverwrite(regs, h) ==
    [regs EXCEPT ![RegisterIndex(h, RegLen(regs))] = LeadingZeros(h)]

\* Faulty add: raises every register below the rank, not only the item's.
AddRegsAll(regs, h) ==
    [j \in DOMAIN regs |-> IF regs[j] < LeadingZeros(h) THEN LeadingZeros(h) ELSE regs[j]]

\* Faulty add: accumulates the ranks of the items of a register.
AddRegsAccumulate(regs, h) ==
    [regs EXCEPT ![RegisterIndex(h, RegLen(regs))] = @ + LeadingZeros(h)]

\* The register update of add: raise registers[idx] to v when it is below v.
AddRegs(regs, h) ==
    LET idx == RegisterIndex(h, RegLen(regs))
        v == LeadingZeros(h)
    IN  IF regs[idx] < v THEN [regs EXCEPT ![idx] = v] ELSE regs

Alpha(m) ==
    IF m = 16 THEN Rat(673, 1000)
    ELSE IF m = 32 THEN Rat(697, 1000)
    ELSE IF m = 64 THEN Rat(709, 1000)
    ELSE FDiv(Rat(7213, 10000), FAdd(F(1), FDiv(Rat(1079, 1000), F(m))))

\* registers.iter().map(|mj| 2^-mj).sum(), from register j on
RECURSIVE SumFrom(_, _)
SumFrom(regs, j) ==
    IF j >= RegLen(regs) THEN Zero
    ELSE FAdd(Pow2Neg(regs[j]), SumFrom(regs, j + 1))

\* Faulty raw estimate: alpha * m^2 * z, without the factor 2.
HllCardinalityNoFactor(regs) ==
    LET m == RegLen(regs)
        mf64 == F(m)
        z == FDiv(F(1), SumFrom(regs, 0))
    IN  FMul(FMul(FMul(Alpha(m), mf64), mf64), z)

HllCardinality(regs) ==
    LET m == RegLen(regs)
        mf64 == F(m)
        sum == SumFrom(regs, 0)
        z == FDiv(F(1), sum)
    IN  FMul(FMul(FMul(FMul(Alpha(m), mf64), mf64), F(2)), z)

LinearCount(regs, zero_count) ==
    LET m == F(RegLen(regs))
    IN  FMul(m, FLn(FDiv(m, F(zero_count))))

ZeroCount(regs) == Cardinality({j \in DOMAIN regs : regs[j] = 0})

\* Faulty count: no small-range correction.
CountValueRaw(regs) == HllCardinality(regs)

\* Faulty count: linear counting without the test for zero_count == 0.
CountValueNoZeroCheck(regs) ==
    LET est == HllCardinality(regs)
    IN  IF FGt(est, FMul(Rat(5, 2), F(RegLen(regs)))) THEN est
        ELSE LinearCount(regs, ZeroCount(regs))

CountValue(regs) ==
    LET m == RegLen(regs)
        est == HllCardinality(regs)
        zero_count == ZeroCount(regs)
    IN  IF FGt(est, FMul(Rat(5, 2), F(m))) THEN est
        ELSE IF zero_count = 0 THEN est
        ELSE LinearCount(regs, zero_count)

ErrorEstimateValue(regs) == FDiv(Rat(104, 100), FSqrt(F(RegLen(regs))))

(***************************************************************************)
(* Calls.                                                                  *)
(***************************************************************************)
NoRet == [op |-> "none"]

Init ==
    /\ status = "unconstructed"
    /\ registers = NewRegisters(0)
    /\ hasher = <<>>
    /\ ret = NoRet
    /\ items = <<>>

\* HyperLogLog::new(m)
New(m) ==
    /\ status = "unconstructed"
    /\ status' = "ok"
    /\ registers' = NewRegisters(m)
    /\ hasher' = <<>>
    /\ ret' = [op |-> "new"]
    /\ items' = <<>>

\* add(item), the item hashing to h, on a non-empty register vector
Add(h) ==
    /\ status = "ok"
    /\ RegLen(registers) > 0
    /\ Len(items) < MaxAdds
    /\ hasher' = <<h>>
    /\ registers' = AddRegs(registers, h)
    /\ ret' = [op |-> "add"]
    /\ items' = Append(items, h)
    /\ UNCHANGED status

\* add(item) on an empty register vector: h % 0 panics after the hasher
\* has been replaced and fed
AddPanic(h) ==
    /\ status = "ok"
    /\ RegLen(registers) = 0
    /\ hasher' = <<h>>
    /\ status' = "panicked"
    /\ ret' = [op |-> "panic"]
    /\ UNCHANGED <<registers, items>>

\* Faulty count: consumes the registers while summing them (drain for iter).
CountDrain ==
    /\ status = "ok"
    /\ ret' = [op |-> "count", est |-> HllCardinality(registers),
               val |-> CountValue(registers)]
    /\ registers' = NewRegisters(0)
    /\ UNCHANGED <<status, hasher, items>>

\* count()
Count ==
    /\ status = "ok"
    /\ ret' = [op |-> "count", est |-> HllCardinality(registers),
               val |-> CountValue(registers)]
    /\ UNCHANGED <<status, registers, hasher, items>>

\* error_estimate()
ErrorEstimate ==
    /\ status = "ok"
    /\ ret' = [op |-> "error_estimate", val |-> ErrorEstimateValue(registers)]
    /\ UNCHANGED <<status, registers, hasher, items>>

Next ==
    \/ \E m \in MValues : New(m)
    \/ \E h \in Hashes : Add(h)
    \/ \E h \in Hashes : AddPanic(h)
    \/ Count
    \/ ErrorEstimate

Spec == Init /\ [][Next]_vars

(***************************************************************************)
(* Helpers of the properties.                                              *)
(***************************************************************************)
Range(s) == {s[i] : i \in 1 .. Len(s)}

Max(S) == CHOOSE x \in S : \A y \in S : y <= x

\* An add has just been executed (the history grew by the added hash).
AddStep == Len(items') = Len(items) + 1

\* The ranks of the items of the history that map to register j of m.
RanksAt(j, m) ==
    {LeadingZeros(items[i]) : i \in {i \in 1 .. Len(items) : items[i] % m = j}}

\* The registers of an estimator built with m registers and fed the hashes
\* of s in order.
RECURSIVE RegistersAfter(_, _)
RegistersAfter(m, s) ==
    IF s = <<>> THEN NewRegisters(m)
    ELSE AddRegs(RegistersAfter(m, SubSeq(s, 1, Len(s) - 1)), s[Len(s)])

\* Element-wise maximum of two register vectors of the same length.
MergeMax(a, b) == [j \in DOMAIN a |-> IF a[j] < b[j] THEN b[j] ELSE a[j]]

\* The sum of 2^-registers[j] as one fraction over 2^HashBits.
RECURSIVE ScaledSum(_, _)
ScaledSum(regs, j) ==
    IF j >= RegLen(regs) THEN 0
    ELSE 2 ^ (HashBits - regs[j]) + ScaledSum(regs, j + 1)

\* alpha(m) * m^2 * Z with Z = 1 / sum_j 2^-registers[j]
TextbookEstimate(regs) ==
    LET m == RegLen(regs)
    IN  FMul(Alpha(m), Rat(m * m * (2 ^ HashBits), ScaledSum(regs, 0)))

\* m * ln(m / zc) for 1 <= zc <= m
LinearCountingValue(m, zc) ==
    IF zc = m THEN Zero
    ELSE [k |-> "mul", a |-> F(m), b |-> [k |-> "ln", a |-> Rat(m, zc)]]

LargeRange(regs) == FGt(HllCardinality(regs), Rat(5 * RegLen(regs), 2))

(***************************************************************************)
(* C1: new(0) fails at construction, so that no later add, count or        *)
(* error_estimate call runs on an estimator with zero registers.           *)
(* The code constructs the estimator for every m: stated as the claim,     *)
(* this is violated.                                                       *)
(***************************************************************************)
C1_NoCallOnZeroRegisters ==
    ret.op \in {"count", "error_estimate", "add", "panic"}
        => RegLen(registers) >= 1

(***************************************************************************)
(* C2: in every reachable state of an estimator with m >= 1, register j    *)
(* is the maximum of leading_zeros(h) over the items added so far with     *)
(* h mod m = j, and 0 when there is none; and no register ever decreases   *)
(* from one state to the next.                                             *)
(***************************************************************************)
C2_RegisterIsMaxRank ==
    (status = "ok" /\ RegLen(registers) >= 1) =>
        \A j \in DOMAIN registers :
            registers[j] = Max(RanksAt(j, RegLen(registers)) \cup {0})

C2_NoDecrease ==
    status = "ok" =>
        \A j \in DOMAIN registers : registers'[j] >= registers[j]

C2_MonotonicRegisters == []C2_RegisterIsMaxRank /\ [][C2_NoDecrease]_vars

\* Two items in a row map to the same register, the second of lower rank.
C2_Witness ==
    /\ status = "ok"
    /\ RegLen(registers) >= 2
    /\ \E i \in 2 .. Len(items) :
          /\ items[i] % RegLen(registers) = items[i - 1] % RegLen(registers)
          /\ LeadingZeros(items[i]) < LeadingZeros(items[i - 1])

(***************************************************************************)
(* C3: an add of an item with hash h leaves every register other than the  *)
(* one at index h mod m as it was, and the number of registers never       *)
(* changes after construction.                                             *)
(***************************************************************************)
C3_AddFrame ==
    /\ status = "ok" => DOMAIN registers' = DOMAIN registers
    /\ AddStep =>
          \A j \in DOMAIN registers :
              j # items'[Len(items')] % RegLen(registers)
                  => registers'[j] = registers[j]

C3_AddChangesOneRegister == [][C3_AddFrame]_vars

\* An add raised one register while another one already held a rank.
C3_Witness ==
    /\ ret.op = "add"
    /\ RegLen(registers) >= 2
    /\ LET idx == items[Len(items)] % RegLen(registers)
       IN  /\ registers[idx] = LeadingZeros(items[Len(items)])
           /\ registers[idx] >= 1
           /\ \E j \in DOMAIN registers : j # idx /\ registers[j] >= 1

(***************************************************************************)
(* C4: count() is read-only and deterministic: a count call changes        *)
(* neither the registers, the hasher nor the history, and a count that     *)
(* follows a count with no add in between returns the same value.          *)
(***************************************************************************)
C4_CountFrame ==
    ret'.op = "count" =>
        /\ registers' = registers
        /\ hasher' = hasher
        /\ items' = items
        /\ status' = status
        /\ ret.op = "count" => ret'.val = ret.val

C4_CountReadOnly == [][C4_CountFrame]_vars

\* count() has returned on an estimator that holds ranks.
C4_Witness ==
    /\ ret.op = "count"
    /\ Len(items) >= 2
    /\ \E j \in DOMAIN registers : registers[j] >= 1

(***************************************************************************)
(* C5: adding an item whose hash was added before leaves every register    *)
(* unchanged, and so the value count() computes.                           *)
(***************************************************************************)
C5_ReAddFrame ==
    (AddStep /\ items'[Len(items')] \in Range(items)) =>
        /\ registers' = registers
        /\ CountValue(registers') = CountValue(registers)

C5_DuplicateInsensitive == [][C5_ReAddFrame]_vars

\* The last add repeated an earlier item of rank >= 1.
C5_Witness ==
    /\ ret.op = "add"
    /\ Len(items) >= 2
    /\ items[Len(items)] \in Range(SubSeq(items, 1, Len(items) - 1))
    /\ LeadingZeros(items[Len(items)]) >= 1

(***************************************************************************)
(* C6: count() on a freshly constructed estimator with m >= 1 registers    *)
(* returns exactly 0.                                                      *)
(***************************************************************************)
C6_EmptyCountIsZero ==
    (ret.op = "count" /\ items = <<>> /\ RegLen(registers) >= 1)
        => ret.val = Zero

\* count() has returned on a fresh estimator with several registers.
C6_Witness ==
    /\ ret.op = "count"
    /\ items = <<>>
    /\ RegLen(registers) >= 2

(***************************************************************************)
(* C7: for every split of the added items into a sequence A followed by a  *)
(* sequence B, the element-wise maximum of the registers of an estimator   *)
(* fed A and of an estimator fed B (same m) is the register vector of the  *)
(* estimator fed A then B, and count() agrees on the two.                  *)
(***************************************************************************)
C7_MaxMerge ==
    (status = "ok" /\ RegLen(registers) >= 1) =>
        \A n \in 0 .. Len(items) :
            LET m == RegLen(registers)
                merged == MergeMax(RegistersAfter(m, SubSeq(items, 1, n)),
                                   RegistersAfter(m, SubSeq(items, n + 1, Len(items))))
            IN  /\ merged = registers
                /\ CountValue(merged) = CountValue(registers)

\* Both shards hold a rank the other one lacks.
C7_Witness ==
    /\ status = "ok"
    /\ RegLen(registers) >= 2
    /\ \E n \in 1 .. (Len(items) - 1) :
          LET m == RegLen(registers)
              a == RegistersAfter(m, SubSeq(items, 1, n))
              b == RegistersAfter(m, SubSeq(items, n + 1, Len(items)))
          IN  /\ \E j \in DOMAIN a : a[j] > b[j]
              /\ \E j \in DOMAIN a : b[j] > a[j]

(***************************************************************************)
(* C8: the raw estimate count() computes and compares with 2.5 * m is      *)
(* E = alpha(m) * m^2 * Z, Z = 1 / sum_j 2^-registers[j].                  *)
(* The code computes twice that; the statement as claimed is violated.     *)
(***************************************************************************)
C8_RawEstimateTextbook ==
    (ret.op = "count" /\ RegLen(registers) >= 1)
        => ret.est = TextbookEstimate(registers)

\* C8, amended: the raw estimate count() computes and compares with
\* 2.5 * m is alpha(m) * m^2 * 2 * Z.
C8_RawEstimateDoubled ==
    (ret.op = "count" /\ RegLen(registers) >= 1)
        => ret.est = FMul(F(2), TextbookEstimate(registers))

\* count() has computed the raw estimate of registers holding ranks, with
\* alpha taken from the table.
C8_Witness ==
    /\ ret.op = "count"
    /\ RegLen(registers) = 16
    /\ \E j \in DOMAIN registers : registers[j] >= 2

C10_ZeroIffUntouched ==
    (status = "ok" /\ RegLen(registers) >= 1) =>
        \A j \in DOMAIN registers :
            registers[j] = 0 <=> RanksAt(j, RegLen(registers)) = {}

====
